---- MODULE Spec2Model ----
(***************************************************************************)
(* typed-env: typed, cached access to process environment variables.       *)
(*                                                                         *)
(* Strings are sequences of one-character strings.  A Rust Option<X> held  *)
(* in program state is a sequence of length at most one: << >> is None and *)
(* <<x>> is Some(x).  Parsed values: an integer is a number, a String is a *)
(* character sequence, a parsed Option<T> is <<"Some", v>>, a ListEnvar is *)
(* the sequence of its elements.                                           *)
(***************************************************************************)
EXTENDS Integers, Sequences, FiniteSets, TLC

(***************************************************************************)
(* Bounds of the model.                                                    *)
(***************************************************************************)
NThreads == 2
NCallers == 3
MaxLen == 3
NVars == 2

(***************************************************************************)
(* EnvarError and Result<T, EnvarError> (error.rs).                        *)
(***************************************************************************)
Ok(v) ==
    [tag |-> "Ok", val |-> <<v>>, varname |-> "", typename |-> "", value |-> << >>]

ParseError(varname, typename, value) ==
    [tag |-> "ParseError", val |-> << >>, varname |-> varname,
     typename |-> typename, value |-> value]

NotSet(varname) ==
    [tag |-> "NotSet", val |-> << >>, varname |-> varname, typename |-> "",
     value |-> << >>]

TryDefault(varname) ==
    [tag |-> "TryDefault", val |-> << >>, varname |-> varname, typename |-> "",
     value |-> << >>]

(***************************************************************************)
(* str::trim, str::is_empty and str::split on a literal separator.         *)
(***************************************************************************)
IsWhitespace(c) == c \in {" ", "\t", "\n"}

RECURSIVE TrimStart(_)
TrimStart(s) ==
    IF s # << >> /\ IsWhitespace(Head(s)) THEN TrimStart(Tail(s)) ELSE s

RECURSIVE TrimEnd(_)
TrimEnd(s) ==
    IF s # << >> /\ IsWhitespace(s[Len(s)])
    THEN TrimEnd(SubSeq(s, 1, Len(s) - 1))
    ELSE s

Trim(s) == TrimEnd(TrimStart(s))

MatchAt(s, sep, i) ==
    /\ i + Len(sep) - 1 <= Len(s)
    /\ SubSeq(s, i, i + Len(sep) - 1) = sep

\* The segments of s between the non-overlapping occurrences of the
\* non-empty literal sep, scanning from the left.
RECURSIVE Split(_, _)
Split(s, sep) ==
    LET hits == {i \in 1..Len(s) : MatchAt(s, sep, i)}
    IN  IF hits = {}
        THEN <<s>>
        ELSE LET i == CHOOSE j \in hits : \A k \in hits : j <= k
             IN  <<SubSeq(s, 1, i - 1)>>
                     \o Split(SubSeq(s, i + Len(sep), Len(s)), sep)

(***************************************************************************)
(* Target types.  <<"u8">>, <<"String">>, <<"Option", T>> and              *)
(* <<"List", T, C>> with C a ListEnvarConfig.                              *)
(***************************************************************************)
ListEnvarConfig(sep, filterEmpty, filterWs) ==
    [SEP |-> sep, FILTER_EMPTY_STR |-> filterEmpty, FILTER_WHITESPACE |-> filterWs]

IsDigit(c) == c \in {"0", "1", "2", "3", "4", "5", "6", "7", "8", "9"}

DigitVal(c) ==
    CASE c = "0" -> 0 [] c = "1" -> 1 [] c = "2" -> 2 [] c = "3" -> 3
      [] c = "4" -> 4 [] c = "5" -> 5 [] c = "6" -> 6 [] c = "7" -> 7
      [] c = "8" -> 8 [] c = "9" -> 9

RECURSIVE Decimal(_)
Decimal(ds) ==
    IF ds = << >> THEN 0
    ELSE 10 * Decimal(SubSeq(ds, 1, Len(ds) - 1)) + DigitVal(ds[Len(ds)])

\* impl_via_parse!(u8): s.parse::<u8>() accepts an optional "+" followed by
\* one or more decimal digits denoting a number of at most 255; nothing is
\* trimmed.  Every failure becomes a ParseError naming the type and s.
ParseU8(varname, s) ==
    LET ds == IF Len(s) > 1 /\ s[1] = "+" THEN Tail(s) ELSE s
    IN  IF /\ ds # << >>
           /\ \A i \in 1..Len(ds) : IsDigit(ds[i])
           /\ Decimal(ds) <= 255
        THEN Ok(Decimal(ds))
        ELSE ParseError(varname, "u8", s)

\* The integer types of impl_via_parse! that overflow on short strings:
\* signedness, MIN and MAX.
IntegerTypes == {"u8", "i8", "u16", "i16"}

IntegerType(name) ==
    CASE name = "u8" -> [signed |-> FALSE, MIN |-> 0, MAX |-> 255]
      [] name = "i8" -> [signed |-> TRUE, MIN |-> -128, MAX |-> 127]
      [] name = "u16" -> [signed |-> FALSE, MIN |-> 0, MAX |-> 65535]
      [] name = "i16" -> [signed |-> TRUE, MIN |-> -32768, MAX |-> 32767]

\* <$t as FromStr>::from_str: << >> for an Err, <<n>> for Ok(n).  An empty
\* string and a lone sign are errors; "+" is a sign for every type and "-"
\* for the signed ones; every remaining character must be a digit; a
\* number outside MIN..MAX is an overflow error.
from_str(t, s) ==
    IF s = << >> \/ s = <<"+">> \/ s = <<"-">>
    THEN << >>
    ELSE LET negative == t.signed /\ s[1] = "-"
             digits == IF s[1] = "+" \/ negative THEN Tail(s) ELSE s
             n == IF negative THEN 0 - Decimal(digits) ELSE Decimal(digits)
         IN  IF /\ \A i \in 1..Len(digits) : IsDigit(digits[i])
                /\ t.MIN <= n
                /\ n <= t.MAX
             THEN <<n>>
             ELSE << >>

\* Mutant of ParseInteger: a number outside MIN..MAX wraps around.
ParseIntegerWrapping(typename, varname, s) ==
    LET t == IntegerType(typename)
        wide == [signed |-> t.signed, MIN |-> -999999, MAX |-> 999999]
        n == from_str(wide, s)
    IN  IF n # << >>
        THEN Ok(t.MIN + ((n[1] - t.MIN) % (t.MAX - t.MIN + 1)))
        ELSE ParseError(varname, typename, s)

\* impl_via_parse!($t): s.parse::<$t>(), an error mapped to a ParseError
\* naming the type and carrying s.
ParseInteger(typename, varname, s) ==
    LET n == from_str(IntegerType(typename), s)
    IN  IF n # << >> THEN Ok(n[1]) ELSE ParseError(varname, typename, s)

\* Mutant of ParseString: the value is trimmed.
ParseStringTrimmed(varname, value) == Ok(Trim(value))

\* EnvarParse<String>: the identity.
ParseString(varname, value) == Ok(value)

(***************************************************************************)
(* EnvarParse<bool>.  special_constants holds the two literal arrays.      *)
(***************************************************************************)
TRUE_ALTERNATIVES ==
    << <<"t", "r", "u", "e">>, <<"1">>, <<"y", "e", "s">>, <<"y">>,
       <<"o", "n">>, <<"e", "n", "a", "b", "l", "e", "d">> >>

FALSE_ALTERNATIVES ==
    << <<"f", "a", "l", "s", "e">>, <<"0">>, <<"n", "o">>, <<"n">>,
       <<"o", "f", "f">>, <<"d", "i", "s", "a", "b", "l", "e", "d">> >>

UpperCase ==
    <<"A", "B", "C", "D", "E", "F", "G", "H", "I", "J", "K", "L", "M",
      "N", "O", "P", "Q", "R", "S", "T", "U", "V", "W", "X", "Y", "Z">>

LowerCase ==
    <<"a", "b", "c", "d", "e", "f", "g", "h", "i", "j", "k", "l", "m",
      "n", "o", "p", "q", "r", "s", "t", "u", "v", "w", "x", "y", "z">>

\* u8::to_ascii_lowercase
to_ascii_lowercase(c) ==
    IF \E i \in DOMAIN UpperCase : UpperCase[i] = c
    THEN LowerCase[CHOOSE i \in DOMAIN UpperCase : UpperCase[i] = c]
    ELSE c

\* Mutant of eq_ignore_ascii_case: the comparison is exact.
eq_exact_case(a, b) == a = b

\* str::eq_ignore_ascii_case
eq_ignore_ascii_case(a, b) ==
    /\ Len(a) = Len(b)
    /\ \A i \in 1..Len(a) : to_ascii_lowercase(a[i]) = to_ascii_lowercase(b[i])

\* EnvarParse<bool>: the trimmed input is empty (false), or one of the true
\* alternatives, or one of the false alternatives, or a ParseError that
\* carries the trimmed input.
ParseBool(varname, value0) ==
    LET value == Trim(value0)
    IN  IF value = << >>
        THEN Ok(FALSE)
        ELSE IF \E i \in DOMAIN TRUE_ALTERNATIVES :
                    eq_ignore_ascii_case(TRUE_ALTERNATIVES[i], value)
        THEN Ok(TRUE)
        ELSE IF \E i \in DOMAIN FALSE_ALTERNATIVES :
                    eq_ignore_ascii_case(FALSE_ALTERNATIVES[i], value)
        THEN Ok(FALSE)
        ELSE ParseError(varname, "bool", value)

RECURSIVE Parse(_, _, _)
RECURSIVE ParseListItems(_, _, _, _, _)

\* Mutant of ParseOption: is_empty is asked of the untrimmed string.
ParseOptionEmptyBeforeTrim(inner, varname, value0) ==
    IF value0 = << >>
    THEN TryDefault(varname)
    ELSE LET parsed == Parse(inner, varname, Trim(value0))
         IN  IF parsed.tag = "Ok"
             THEN Ok(<<"Some", parsed.val[1]>>)
             ELSE parsed

\* Mutant of ParseOption: T's rule is given the untrimmed string.
ParseOptionUntrimmedInner(inner, varname, value0) ==
    IF Trim(value0) = << >>
    THEN TryDefault(varname)
    ELSE LET parsed == Parse(inner, varname, value0)
         IN  IF parsed.tag = "Ok"
             THEN Ok(<<"Some", parsed.val[1]>>)
             ELSE parsed

\* EnvarParse<Option<T>>: a blank string raises TryDefault; anything else is
\* handed, trimmed, to T's rule and a success is wrapped in Some.
ParseOption(inner, varname, value0) ==
    LET value == Trim(value0)
    IN  IF value = << >>
        THEN TryDefault(varname)
        ELSE LET parsed == Parse(inner, varname, value)
             IN  IF parsed.tag = "Ok"
                 THEN Ok(<<"Some", parsed.val[1]>>)
                 ELSE parsed

\* Mutant of ParseListItems: FILTER_EMPTY_STR looks at the trimmed segment.
ParseListItemsEmptyAfterTrim(inner, conf, varname, items, list) ==
    IF items = << >>
    THEN Ok(list)
    ELSE LET item == Head(items)
             trimmed == Trim(item)
         IN  IF conf.FILTER_EMPTY_STR /\ trimmed = << >>
             THEN ParseListItems(inner, conf, varname, Tail(items), list)
             ELSE IF conf.FILTER_WHITESPACE /\ trimmed = << >>
             THEN ParseListItems(inner, conf, varname, Tail(items), list)
             ELSE LET parsed == Parse(inner, varname, trimmed)
                  IN  IF parsed.tag = "Ok"
                      THEN ParseListItems(inner, conf, varname, Tail(items),
                                          Append(list, parsed.val[1]))
                      ELSE parsed

\* Mutant of ParseListItems: a failing segment is skipped.
ParseListItemsSkipFailing(inner, conf, varname, items, list) ==
    IF items = << >>
    THEN Ok(list)
    ELSE LET item == Head(items)
             trimmed == Trim(item)
         IN  IF conf.FILTER_EMPTY_STR /\ item = << >>
             THEN ParseListItems(inner, conf, varname, Tail(items), list)
             ELSE IF conf.FILTER_WHITESPACE /\ trimmed = << >>
             THEN ParseListItems(inner, conf, varname, Tail(items), list)
             ELSE LET parsed == Parse(inner, varname, trimmed)
                  IN  IF parsed.tag = "Ok"
                      THEN ParseListItems(inner, conf, varname, Tail(items),
                                          Append(list, parsed.val[1]))
                      ELSE ParseListItems(inner, conf, varname, Tail(items),
                                          list)

\* Mutant of ParseListItems: the whitespace filter drops only segments
\* that have characters.
ParseListItemsWhitespaceOfNonEmpty(inner, conf, varname, items, list) ==
    IF items = << >>
    THEN Ok(list)
    ELSE LET item == Head(items)
             trimmed == Trim(item)
         IN  IF conf.FILTER_EMPTY_STR /\ item = << >>
             THEN ParseListItems(inner, conf, varname, Tail(items), list)
             ELSE IF conf.FILTER_WHITESPACE /\ item # << >> /\ trimmed = << >>
             THEN ParseListItems(inner, conf, varname, Tail(items), list)
             ELSE LET parsed == Parse(inner, varname, trimmed)
                  IN  IF parsed.tag = "Ok"
                      THEN ParseListItems(inner, conf, varname, Tail(items),
                                          Append(list, parsed.val[1]))
                      ELSE parsed

\* The loop of EnvarParse<ListEnvar<T, C>>::parse over the remaining
\* segments, list being the elements pushed so far.
ParseListItems(inner, conf, varname, items, list) ==
    IF items = << >>
    THEN Ok(list)
    ELSE LET item == Head(items)
             trimmed == Trim(item)
         IN  IF conf.FILTER_EMPTY_STR /\ item = << >>
             THEN ParseListItems(inner, conf, varname, Tail(items), list)
             ELSE IF conf.FILTER_WHITESPACE /\ trimmed = << >>
             THEN ParseListItems(inner, conf, varname, Tail(items), list)
             ELSE LET parsed == Parse(inner, varname, trimmed)
                  IN  IF parsed.tag = "Ok"
                      THEN ParseListItems(inner, conf, varname, Tail(items),
                                          Append(list, parsed.val[1]))
                      ELSE parsed

ParseList(inner, conf, varname, value) ==
    ParseListItems(inner, conf, varname, Split(value, conf.SEP), << >>)

\* EnvarParser::<T>::parse, resolved by the target type.
Parse(ty, varname, s) ==
    CASE ty[1] = "u8" -> ParseU8(varname, s)
      [] ty[1] \in {"i8", "u16", "i16"} -> ParseInteger(ty[1], varname, s)
      [] ty[1] = "String" -> ParseString(varname, s)
      [] ty[1] = "bool" -> ParseBool(varname, s)
      [] ty[1] = "Option" -> ParseOption(ty[2], varname, s)
      [] ty[1] = "List" -> ParseList(ty[2], ty[3], varname, s)

(***************************************************************************)
(* The declared variables explored by the model: every pairing of a        *)
(* caching policy, a target type and a default policy below.               *)
(***************************************************************************)
NoFilterConfig == ListEnvarConfig(<<",">>, FALSE, FALSE)

TypeU8 == <<"u8">>
TypeOptionU8 == <<"Option", <<"u8">>>>
TypeOptionString == <<"Option", <<"String">>>>
TypeListOptionU8 == <<"List", <<"Option", <<"u8">>>>, NoFilterConfig>>

\* The ListEnvarConfig implementations: those of tests.rs, one filter
\* alone, and a separator of two characters.
CommaConfig == ListEnvarConfig(<<",">>, TRUE, TRUE)
FilterEmptyConfig == ListEnvarConfig(<<",">>, TRUE, FALSE)
FilterWhitespaceConfig == ListEnvarConfig(<<",">>, FALSE, TRUE)
WideSepConfig == ListEnvarConfig(<<",", ",">>, FALSE, FALSE)
WideSepFilterWhitespaceConfig == ListEnvarConfig(<<",", ",">>, FALSE, TRUE)

ListTypes ==
    << <<"List", <<"u8">>, CommaConfig>>,
       <<"List", <<"u8">>, NoFilterConfig>>,
       <<"List", <<"u8">>, FilterEmptyConfig>>,
       <<"List", <<"u8">>, FilterWhitespaceConfig>>,
       <<"List", <<"u8">>, WideSepConfig>>,
       <<"List", <<"String">>, CommaConfig>>,
       <<"List", <<"String">>, NoFilterConfig>>,
       <<"List", <<"String">>, FilterEmptyConfig>>,
       <<"List", <<"String">>, FilterWhitespaceConfig>>,
       <<"List", <<"u8">>, WideSepFilterWhitespaceConfig>>,
       TypeListOptionU8 >>

\* EnvarDef<T>: Unset is << >>, Default(v) is <<v>>.
Unset == << >>
Default(v) == <<v>>

\* Mutant of to_option: Default(v) is mapped to None.
to_option_none(def) == << >>

\* EnvarDef::to_option
to_option(def) == def

Envar(policy, ty, def) ==
    [_name |-> "VAR", policy |-> policy, ty |-> ty, _default_factory |-> def]

Declarations ==
    << Envar("OnStartup", TypeU8, Unset),
       Envar("OnStartup", TypeU8, Default(9)),
       Envar("OnStartup", TypeOptionU8, Unset),
       Envar("OnStartup", TypeOptionU8, Default(<<"Some", 9>>)),
       Envar("OnStartup", TypeListOptionU8, Unset),
       Envar("OnStartup", TypeListOptionU8, Default(<<>>)),
       Envar("OnDemand", TypeU8, Unset),
       Envar("OnDemand", TypeU8, Default(9)),
       Envar("OnDemand", TypeOptionU8, Unset),
       Envar("OnDemand", TypeOptionU8, Default(<<"Some", 9>>)),
       Envar("OnDemand", TypeListOptionU8, Default(<<>>)),
       Envar("OnDemand", <<"String">>, Unset) >>

\* The raw strings the environment variable is set to.
EnvStrings ==
    { << >>, <<" ">>, <<"7">>, <<" ", "x">>, <<"7", ",">> }

Threads == 1..NThreads

VARIABLES
    var,        \* the declared Envar: name, policy, type, default factory
    env,        \* std::env::var(name): << >> when unset, <<s>> when set to s
    once,       \* EnvarStore::OnStartup: the OnceLock
    entry,      \* EnvarStore::OnDemand: the pair guarded by the mutex
    mutex,      \* the thread holding the OnDemand mutex, 0 when free
    pc,         \* where each thread stands in Envar::value
    env_value,  \* per thread in a read: the environment value it observed
    cand,       \* per thread in a read: the value it is about to commit
    path,       \* per thread in a read: the match arm it took
    before,     \* history, per thread in a read: returned when it started
    ret,        \* history: << >>, or <<r>> for the read that returned last:
                \*   its result, observed environment value (for a
                \*   read served from the committed cell, which does not
                \*   look, the value the environment held), branch, and
                \*   returned and failed as they were when the read started
    commits,    \* history: the number of writes to the OnceLock
    returned,   \* history: the values returned as Ok by OnStartup reads
    envChanged, \* history: the environment changed after some read started
    failed,     \* history: some read has returned ParseError or NotSet
    after,      \* history, per thread in a read: failed when it started
    last,       \* history: the OnDemand reads that left the critical section
                \*   last, most recent first, at most two: the environment
                \*   value each observed, its result, whether it ran the
                \*   parse rule
    input,      \* a parse rule alone: << >>, or <<i>> for its type and raw string
    output,     \* a parse rule alone: << >>, or <<r>> for the rule's result
    error_provider, \* ErrorReason: the Mutex's content, << >> once taken, or
                    \*   <<m>> for the closure that produces the string m
    provider_lock,  \* ErrorReason: the thread holding that Mutex, 0 when free
    poisoned,       \* ErrorReason: a thread panicked holding that Mutex
    reason_str,     \* ErrorReason: the OnceLock<String>
    once_runner,    \* ErrorReason: the thread running the OnceLock's
                    \*   initializer, 0 when none does
    rpc,            \* where each caller stands in ErrorReason::as_str
    produced,       \* per caller in as_str: the string its closure call made
    got,            \* history, per caller: << >>, or <<s>> for the string
                    \*   its last as_str call returned
    producer,       \* history: the string the closure given to
                    \*   ErrorReason::new produces
    runs,           \* history: the number of times the closure ran
    policies,   \* several variables: the caching policy of each
    cells,      \* several variables: whether each OnceLock is committed
    holders,    \* several variables: the thread holding each Mutex, or 0
    target,     \* several variables: the variable each thread reads, or 0
    at          \* several variables: where each thread stands in value()

envarVars ==
    <<var, env, once, entry, mutex, pc, env_value, cand, path, before, ret,
      commits, returned, envChanged, failed, after, last>>
parseVars == <<input, output>>
reasonVars ==
    <<error_provider, provider_lock, poisoned, reason_str, once_runner, rpc,
      produced, got, producer, runs>>
lockVars == <<policies, cells, holders, target, at>>
otherVars == <<parseVars, reasonVars, lockVars>>
vars == <<envarVars, parseVars, reasonVars, lockVars>>

(***************************************************************************)
(* Construction: Envar::on_startup and Envar::on_demand.                   *)
(***************************************************************************)
ParseIdle ==
    /\ input = << >>
    /\ output = << >>

EnvarIdle ==
    /\ once = << >>
    /\ entry = [raw |-> << >>, val |-> << >>]
    /\ mutex = 0
    /\ pc = [t \in Threads |-> "idle"]
    /\ env_value = [t \in Threads |-> << >>]
    /\ cand = [t \in Threads |-> << >>]
    /\ path = [t \in Threads |-> "none"]
    /\ before = [t \in Threads |-> {}]
    /\ ret = << >>
    /\ commits = 0
    /\ returned = {}
    /\ envChanged = FALSE
    /\ failed = FALSE
    /\ after = [t \in Threads |-> FALSE]
    /\ last = << >>

Callers == 1..NCallers

\* No ErrorReason is under study.
ReasonIdle ==
    /\ error_provider = << >>
    /\ provider_lock = 0
    /\ poisoned = FALSE
    /\ reason_str = << >>
    /\ once_runner = 0
    /\ rpc = [t \in Callers |-> "idle"]
    /\ produced = [t \in Callers |-> << >>]
    /\ got = [t \in Callers |-> << >>]
    /\ producer = ""
    /\ runs = 0

\* No set of variables is under study.
LocksIdle ==
    /\ policies = << >>
    /\ cells = << >>
    /\ holders = << >>
    /\ target = [t \in Threads |-> 0]
    /\ at = [t \in Threads |-> "idle"]

Init ==
    /\ \E i \in DOMAIN Declarations : var = Declarations[i]
    /\ env \in {<< >>} \cup {<<s>> : s \in EnvStrings}
    /\ EnvarIdle
    /\ ParseIdle
    /\ LocksIdle
    /\ ReasonIdle

Started == ret # << >> \/ \E t \in Threads : pc[t] # "idle"

(***************************************************************************)
(* The environment, written by the rest of the process.                    *)
(***************************************************************************)
SetEnv(s) ==
    /\ env # <<s>>
    /\ env' = <<s>>
    /\ envChanged' = (envChanged \/ Started)
    /\ UNCHANGED <<var, once, entry, mutex, pc, env_value, cand, path, before,
                   ret, commits, returned, failed, after, last, otherVars>>

RemoveEnv ==
    /\ env # << >>
    /\ env' = << >>
    /\ envChanged' = (envChanged \/ Started)
    /\ UNCHANGED <<var, once, entry, mutex, pc, env_value, cand, path, before,
                   ret, commits, returned, failed, after, last, otherVars>>

(***************************************************************************)
(* std::sync::OnceLock<T>                                                  *)
(***************************************************************************)
\* OnceLock::get_or_init(|| v): the cell afterwards.
OnceGetOrInit(cell, v) == IF cell = << >> THEN <<v>> ELSE cell

\* Mutant of OnceSet: a full cell is overwritten.
OnceSetOverwrite(cell, v) == <<v>>

\* OnceLock::set(v): the cell afterwards; a full cell refuses the value.
OnceSet(cell, v) == IF cell = << >> THEN <<v>> ELSE cell

(***************************************************************************)
(* Envar::value, OnStartup.  A step is one access to the OnceLock or to    *)
(* the environment together with the local computation that follows it.    *)
(***************************************************************************)
\* The read of thread t returns r to its caller; its locals are dropped.
Return(t, r, envv, branch, b) ==
    /\ ret' = <<[res |-> r, env_value |-> envv,
                 path |-> branch, before |-> b,
                 after |-> IF pc[t] = "idle" THEN failed ELSE after[t]]>>
    /\ failed' = (failed \/ r.tag \in {"ParseError", "NotSet"})
    /\ after' = [after EXCEPT ![t] = FALSE]
    /\ pc' = [pc EXCEPT ![t] = "idle"]
    /\ env_value' = [env_value EXCEPT ![t] = << >>]
    /\ cand' = [cand EXCEPT ![t] = << >>]
    /\ path' = [path EXCEPT ![t] = "none"]
    /\ before' = [before EXCEPT ![t] = {}]
    /\ returned' = IF var.policy = "OnStartup" /\ r.tag = "Ok"
                   THEN returned \cup {r.val}
                   ELSE returned

\* Mutant of StartupMatch: the TryDefault arm returns the default without
\* committing it, as reset_value does.
StartupMatchDefaultUncommitted(parsed) ==
    CASE parsed.tag = "Ok" ->
            [commit |-> parsed.val, err |-> << >>, branch |-> "parsed"]
      [] parsed.tag = "TryDefault" ->
            IF var._default_factory # Unset
            THEN [commit |-> << >>, err |-> <<Ok(var._default_factory[1])>>,
                  branch |-> "try_default"]
            ELSE [commit |-> << >>, err |-> <<NotSet(parsed.varname)>>,
                  branch |-> "try_default"]
      [] OTHER ->
            [commit |-> << >>, err |-> <<parsed>>, branch |-> "error"]

\* Mutant of StartupMatch: the TryDefault arm is missing.
StartupMatchNoTryDefaultArm(parsed) ==
    CASE parsed.tag = "Ok" ->
            [commit |-> parsed.val, err |-> << >>, branch |-> "parsed"]
      [] OTHER ->
            [commit |-> << >>, err |-> <<parsed>>, branch |-> "error"]

\* Mutant of StartupMatch: a failure is remembered, and every read after
\* one fails.
StartupMatchStickyFailure(parsed) ==
    IF failed
    THEN [commit |-> << >>, err |-> <<NotSet(var._name)>>, branch |-> "error"]
    ELSE CASE parsed.tag = "Ok" ->
                [commit |-> parsed.val, err |-> << >>, branch |-> "parsed"]
           [] parsed.tag = "TryDefault" ->
                IF var._default_factory # Unset
                THEN [commit |-> var._default_factory, err |-> << >>,
                      branch |-> "try_default"]
                ELSE [commit |-> << >>, err |-> <<NotSet(parsed.varname)>>,
                      branch |-> "try_default"]
           [] OTHER ->
                [commit |-> << >>, err |-> <<parsed>>, branch |-> "error"]

\* The match on the parse result of a present variable: the value to
\* commit, or the error to return.
StartupMatch(parsed) ==
    CASE parsed.tag = "Ok" ->
            [commit |-> parsed.val, err |-> << >>, branch |-> "parsed"]
      [] parsed.tag = "TryDefault" ->
            IF var._default_factory # Unset
            THEN [commit |-> var._default_factory, err |-> << >>,
                  branch |-> "try_default"]
            ELSE [commit |-> << >>, err |-> <<NotSet(parsed.varname)>>,
                  branch |-> "try_default"]
      [] OTHER ->
            [commit |-> << >>, err |-> <<parsed>>, branch |-> "error"]

\* if let Some(value) = once_loaded.get() { return Ok(value.clone()) }
StartupGet(t) ==
    /\ var.policy = "OnStartup"
    /\ pc[t] = "idle"
    /\ IF once # << >>
       THEN Return(t, Ok(once[1]), env, "hit", returned)
       ELSE /\ pc' = [pc EXCEPT ![t] = "env"]
            /\ before' = [before EXCEPT ![t] = returned]
            /\ after' = [after EXCEPT ![t] = failed]
            /\ UNCHANGED <<env_value, cand, path, ret, returned, failed>>
    /\ UNCHANGED <<var, env, once, entry, mutex, commits, envChanged, last,
                   otherVars>>

\* std::env::var(self._name), and for a present variable the parse
StartupEnv(t) ==
    /\ var.policy = "OnStartup"
    /\ pc[t] = "env"
    /\ IF env # << >>
       THEN LET m == StartupMatch(Parse(var.ty, var._name, env[1]))
            IN  IF m.err # << >>
                THEN Return(t, m.err[1], env, m.branch, before[t])
                ELSE /\ cand' = [cand EXCEPT ![t] = m.commit]
                     /\ path' = [path EXCEPT ![t] = m.branch]
                     /\ env_value' = [env_value EXCEPT ![t] = env]
                     /\ pc' = [pc EXCEPT ![t] = "init"]
                     /\ UNCHANGED <<before, ret, returned, failed, after>>
       ELSE /\ pc' = [pc EXCEPT ![t] = "recheck"]
            /\ env_value' = [env_value EXCEPT ![t] = env]
            /\ UNCHANGED <<cand, path, before, ret, returned, failed, after>>
    /\ UNCHANGED <<var, env, once, entry, mutex, commits, envChanged, last,
                   otherVars>>

\* Ok(once_loaded.get_or_init(move || value).clone())
StartupInit(t) ==
    /\ var.policy = "OnStartup"
    /\ pc[t] = "init"
    /\ once' = OnceGetOrInit(once, cand[t][1])
    /\ commits' = IF once' # once THEN commits + 1 ELSE commits
    /\ Return(t, Ok(once'[1]), env_value[t],
              IF once = << >> THEN path[t] ELSE "lost", before[t])
    /\ UNCHANGED <<var, env, entry, mutex, envChanged, last, otherVars>>

\* The absent variable: the second once_loaded.get(), then the default.
StartupRecheck(t) ==
    /\ var.policy = "OnStartup"
    /\ pc[t] = "recheck"
    /\ IF once # << >>
       THEN Return(t, Ok(once[1]), env_value[t], "recheck_hit", before[t])
       ELSE IF var._default_factory # Unset
       THEN /\ cand' = [cand EXCEPT ![t] = var._default_factory]
            /\ pc' = [pc EXCEPT ![t] = "set"]
            /\ UNCHANGED <<env_value, path, before, ret, returned, failed,
                           after>>
       ELSE Return(t, NotSet(var._name), env_value[t], "absent", before[t])
    /\ UNCHANGED <<var, env, once, entry, mutex, commits, envChanged, last,
                   otherVars>>

\* let _ = once_loaded.set(default.clone()); return Ok(default);
StartupSet(t) ==
    /\ var.policy = "OnStartup"
    /\ pc[t] = "set"
    /\ once' = OnceSet(once, cand[t][1])
    /\ commits' = IF once' # once THEN commits + 1 ELSE commits
    /\ Return(t, Ok(cand[t][1]), env_value[t],
              IF once = << >> THEN "absent" ELSE "absent_lost", before[t])
    /\ UNCHANGED <<var, env, entry, mutex, envChanged, last, otherVars>>

(***************************************************************************)
(* Envar::value, OnDemand.                                                 *)
(***************************************************************************)
\* Mutant of StoreEntry: entry.0 is not updated.
StoreEntryValueOnly(e, envv, value) == [e EXCEPT !.val = <<value>>]

\* Mutant of StoreEntry: entry.1 is written only while it is None.
StoreEntryFirstValueOnly(e, envv, value) ==
    [e EXCEPT !.raw = envv, !.val = IF e.val = << >> THEN <<value>> ELSE e.val]

\* entry.0 = env_value; entry.1 = Some(value.clone());
StoreEntry(e, envv, value) == [e EXCEPT !.raw = envv, !.val = <<value>>]

\* Mutant of reset_value: a read that finds the variable absent and no
\* default empties the entry.
reset_value_clearing_on_not_set(envv, e) ==
    IF envv = << >>
    THEN LET value == to_option(var._default_factory)
         IN  IF value = << >>
             THEN [res |-> NotSet(var._name),
                   entry |-> [raw |-> << >>, val |-> << >>],
                   parsed |-> FALSE]
             ELSE [res |-> Ok(value[1]),
                   entry |-> StoreEntry(e, envv, value[1]),
                   parsed |-> FALSE]
    ELSE LET r == Parse(var.ty, var._name, envv[1])
         IN  CASE r.tag = "Ok" ->
                    [res |-> r, entry |-> StoreEntry(e, envv, r.val[1]),
                     parsed |-> TRUE]
               [] r.tag = "TryDefault" ->
                    IF var._default_factory # Unset
                    THEN [res |-> Ok(var._default_factory[1]), entry |-> e,
                          parsed |-> TRUE]
                    ELSE [res |-> NotSet(r.varname), entry |-> e,
                          parsed |-> TRUE]
               [] OTHER ->
                    [res |-> r, entry |-> e, parsed |-> TRUE]

\* Mutant of reset_value: the default returned on TryDefault is stored
\* beside the raw string.
reset_value_storing_fallback(envv, e) ==
    IF envv = << >>
    THEN LET value == to_option(var._default_factory)
         IN  IF value = << >>
             THEN [res |-> NotSet(var._name), entry |-> e, parsed |-> FALSE]
             ELSE [res |-> Ok(value[1]),
                   entry |-> StoreEntry(e, envv, value[1]),
                   parsed |-> FALSE]
    ELSE LET r == Parse(var.ty, var._name, envv[1])
         IN  CASE r.tag = "Ok" ->
                    [res |-> r, entry |-> StoreEntry(e, envv, r.val[1]),
                     parsed |-> TRUE]
               [] r.tag = "TryDefault" ->
                    IF var._default_factory # Unset
                    THEN [res |-> Ok(var._default_factory[1]),
                          entry |-> StoreEntry(e, envv, var._default_factory[1]),
                          parsed |-> TRUE]
                    ELSE [res |-> NotSet(r.varname), entry |-> e,
                          parsed |-> TRUE]
               [] OTHER ->
                    [res |-> r, entry |-> e, parsed |-> TRUE]

\* The closure reset_value: the result, the entry afterwards, and whether
\* the parse rule ran.
reset_value(envv, e) ==
    IF envv = << >>
    THEN LET value == to_option(var._default_factory)
         IN  IF value = << >>
             THEN [res |-> NotSet(var._name), entry |-> e, parsed |-> FALSE]
             ELSE [res |-> Ok(value[1]),
                   entry |-> StoreEntry(e, envv, value[1]),
                   parsed |-> FALSE]
    ELSE LET r == Parse(var.ty, var._name, envv[1])
         IN  CASE r.tag = "Ok" ->
                    [res |-> r, entry |-> StoreEntry(e, envv, r.val[1]),
                     parsed |-> TRUE]
               [] r.tag = "TryDefault" ->
                    IF var._default_factory # Unset
                    THEN [res |-> Ok(var._default_factory[1]), entry |-> e,
                          parsed |-> TRUE]
                    ELSE [res |-> NotSet(r.varname), entry |-> e,
                          parsed |-> TRUE]
               [] OTHER ->
                    [res |-> r, entry |-> e, parsed |-> TRUE]

\* Mutant of CacheHit: the stored raw value is not compared.
CacheHitAnyRaw(envv, e) == e.val # << >>

\* if entry.0.as_ref() == env_value.as_ref() { if let Some(value) = entry.1.clone() ..
CacheHit(envv, e) == e.raw = envv /\ e.val # << >>

\* The body of the OnDemand branch after the environment lookup.
DemandValue(envv, e) ==
    IF CacheHit(envv, e)
    THEN [res |-> Ok(e.val[1]), entry |-> e, parsed |-> FALSE]
    ELSE reset_value(envv, e)

\* Envar::value is called on an OnDemand variable: the thread reaches
\* mutex.lock(), where it waits until the mutex is free.
DemandCall(t) ==
    /\ var.policy = "OnDemand"
    /\ pc[t] = "idle"
    /\ pc' = [pc EXCEPT ![t] = "wait"]
    /\ UNCHANGED <<var, env, once, entry, mutex, env_value, cand, path, before,
                   ret, commits, returned, envChanged, failed, after, last,
                   otherVars>>

\* Mutant of DemandLock: the lock is taken without waiting for it.
DemandLockWithoutWaiting(t) ==
    /\ var.policy = "OnDemand"
    /\ pc[t] = "wait"
    /\ mutex' = t
    /\ pc' = [pc EXCEPT ![t] = "locked"]
    /\ UNCHANGED <<var, env, once, entry, env_value, cand, path, before, ret,
                   commits, returned, envChanged, failed, after, last,
                   otherVars>>

\* let mut entry = mutex.lock().unwrap();
DemandLock(t) ==
    /\ var.policy = "OnDemand"
    /\ pc[t] = "wait"
    /\ mutex = 0
    /\ mutex' = t
    /\ pc' = [pc EXCEPT ![t] = "locked"]
    /\ UNCHANGED <<var, env, once, entry, env_value, cand, path, before, ret,
                   commits, returned, envChanged, failed, after, last,
                   otherVars>>

\* let env_value = std::env::var(self._name).ok();
DemandEnv(t) ==
    /\ var.policy = "OnDemand"
    /\ pc[t] = "locked"
    /\ env_value' = [env_value EXCEPT ![t] = env]
    /\ pc' = [pc EXCEPT ![t] = "resolve"]
    /\ UNCHANGED <<var, env, once, entry, mutex, cand, path, before, ret,
                   commits, returned, envChanged, failed, after, last,
                   otherVars>>

\* The comparison with the entry, reset_value, and the return, which
\* drops the guard.
DemandResolve(t) ==
    /\ var.policy = "OnDemand"
    /\ pc[t] = "resolve"
    /\ LET d == DemandValue(env_value[t], entry)
       IN  /\ entry' = d.entry
           /\ Return(t, d.res, env_value[t],
                     IF CacheHit(env_value[t], entry) THEN "hit" ELSE "reset",
                     {})
           /\ last' = <<[raw |-> env_value[t], res |-> d.res,
                         parsed |-> d.parsed]>>
                      \o SubSeq(last, 1, IF last = << >> THEN 0 ELSE 1)
    /\ mutex' = 0
    /\ UNCHANGED <<var, env, once, commits, envChanged, otherVars>>

Value(t) ==
    \/ StartupGet(t)
    \/ StartupEnv(t)
    \/ StartupInit(t)
    \/ StartupRecheck(t)
    \/ StartupSet(t)
    \/ DemandCall(t)
    \/ DemandLock(t)
    \/ DemandEnv(t)
    \/ DemandResolve(t)

Next ==
    \/ \E t \in Threads : Value(t)
    \/ \E s \in EnvStrings : SetEnv(s)
    \/ RemoveEnv

Spec == Init /\ [][Next]_vars

(***************************************************************************)
(* Envar::value on several variables at once.  Only what decides whether   *)
(* a read proceeds is kept: each variable's policy, whether its OnceLock   *)
(* is committed, who holds its Mutex, and where each thread stands.  What  *)
(* the environment holds, what the parse rule answers and whether there is *)
(* a default are left open at every read.                                  *)
(***************************************************************************)
Variables == 1..NVars

LocksInit ==
    /\ policies \in [Variables -> {"OnStartup", "OnDemand"}]
    /\ cells = [v \in Variables |-> FALSE]
    /\ holders = [v \in Variables |-> 0]
    /\ target = [t \in Threads |-> 0]
    /\ at = [t \in Threads |-> "idle"]
    /\ var = Declarations[1]
    /\ env = << >>
    /\ EnvarIdle
    /\ ParseIdle
    /\ ReasonIdle

\* The read of thread t returns.
Returns(t) ==
    /\ target' = [target EXCEPT ![t] = 0]
    /\ at' = [at EXCEPT ![t] = "idle"]

Goes(t, v, where) ==
    /\ target' = [target EXCEPT ![t] = v]
    /\ at' = [at EXCEPT ![t] = where]

\* value() on the OnStartup variable v: the first once_loaded.get()
ReadStartupGet(t, v) ==
    /\ at[t] = "idle"
    /\ policies[v] = "OnStartup"
    /\ IF cells[v] THEN Returns(t) ELSE Goes(t, v, "env")
    /\ UNCHANGED <<policies, cells, holders, envarVars, parseVars, reasonVars>>

\* std::env::var and the parse: a value to commit, an error to return
\* (ParseError, or NotSet on TryDefault without default), or absence
ReadStartupEnv(t) ==
    /\ at[t] = "env"
    /\ \/ Goes(t, target[t], "init")
       \/ Returns(t)
       \/ Goes(t, target[t], "recheck")
    /\ UNCHANGED <<policies, cells, holders, envarVars, parseVars, reasonVars>>

\* once_loaded.get_or_init(..)
ReadStartupInit(t) ==
    /\ at[t] = "init"
    /\ cells' = [cells EXCEPT ![target[t]] = TRUE]
    /\ Returns(t)
    /\ UNCHANGED <<policies, holders, envarVars, parseVars, reasonVars>>

\* The second once_loaded.get(), then the default or NotSet
ReadStartupRecheck(t) ==
    /\ at[t] = "recheck"
    /\ IF cells[target[t]]
       THEN Returns(t)
       ELSE Goes(t, target[t], "set") \/ Returns(t)
    /\ UNCHANGED <<policies, cells, holders, envarVars, parseVars, reasonVars>>

\* let _ = once_loaded.set(default.clone()); return Ok(default);
ReadStartupSet(t) ==
    /\ at[t] = "set"
    /\ cells' = [cells EXCEPT ![target[t]] = TRUE]
    /\ Returns(t)
    /\ UNCHANGED <<policies, holders, envarVars, parseVars, reasonVars>>

\* value() on the OnDemand variable v: the thread reaches mutex.lock()
ReadDemandCall(t, v) ==
    /\ at[t] = "idle"
    /\ policies[v] = "OnDemand"
    /\ Goes(t, v, "wait")
    /\ UNCHANGED <<policies, cells, holders, envarVars, parseVars, reasonVars>>

\* mutex.lock() returns the guard
ReadDemandLock(t) ==
    /\ at[t] = "wait"
    /\ holders[target[t]] = 0
    /\ holders' = [holders EXCEPT ![target[t]] = t]
    /\ Goes(t, target[t], "locked")
    /\ UNCHANGED <<policies, cells, envarVars, parseVars, reasonVars>>

\* std::env::var inside the critical section
ReadDemandEnv(t) ==
    /\ at[t] = "locked"
    /\ Goes(t, target[t], "resolve")
    /\ UNCHANGED <<policies, cells, holders, envarVars, parseVars, reasonVars>>

\* Mutant of ReadDemandResolve: the guard is not dropped on return.
ReadDemandResolveKeepingGuard(t) ==
    /\ at[t] = "resolve"
    /\ holders' = holders
    /\ Returns(t)
    /\ UNCHANGED <<policies, cells, envarVars, parseVars, reasonVars>>

\* The cache comparison or reset_value, and the return, which drops the
\* guard
ReadDemandResolve(t) ==
    /\ at[t] = "resolve"
    /\ holders' = [holders EXCEPT ![target[t]] = 0]
    /\ Returns(t)
    /\ UNCHANGED <<policies, cells, envarVars, parseVars, reasonVars>>

\* A step of a read that thread t has started.
Continue(t) ==
    \/ ReadStartupEnv(t)
    \/ ReadStartupInit(t)
    \/ ReadStartupRecheck(t)
    \/ ReadStartupSet(t)
    \/ ReadDemandLock(t)
    \/ ReadDemandEnv(t)
    \/ ReadDemandResolve(t)

LocksNext ==
    \E t \in Threads :
        \/ \E v \in Variables : ReadStartupGet(t, v) \/ ReadDemandCall(t, v)
        \/ Continue(t)

\* Fair scheduling: a thread inside a read that can take its next step
\* takes it, and a thread waiting in mutex.lock() for a mutex that is
\* free again and again acquires it.  No thread has to start a read.
SpecLocks ==
    /\ LocksInit
    /\ [][LocksNext]_vars
    /\ \A t \in Threads : WF_vars(Continue(t)) /\ SF_vars(ReadDemandLock(t))

(***************************************************************************)
(* The parse rules alone: one rule applied to one raw string.              *)
(***************************************************************************)
Alphabet == {" ", "7", "x", ","}

Strings(n) == UNION {[1..k -> Alphabet] : k \in 0..n}

\* Raw strings for the Boolean rule: short strings over a few letters in
\* both cases, and every literal of test_bool_type, lower-case, upper-case
\* and capitalised, between blanks.
BoolAlphabet == {" ", "y", "N", "o", "n", "1"}

BoolWords ==
    {TRUE_ALTERNATIVES[i] : i \in DOMAIN TRUE_ALTERNATIVES}
        \cup {FALSE_ALTERNATIVES[i] : i \in DOMAIN FALSE_ALTERNATIVES}
        \cup { <<"i", "n", "v", "a", "l", "i", "d">>, <<"t", "r", "u">>,
               <<"o", " ", "n">>, <<"2">>, <<"y", "e", "s", "s">>,
               <<"0", "1">> }

to_ascii_uppercase(c) ==
    IF \E i \in DOMAIN LowerCase : LowerCase[i] = c
    THEN UpperCase[CHOOSE i \in DOMAIN LowerCase : LowerCase[i] = c]
    ELSE c

Cased(w) ==
    { w, [i \in DOMAIN w |-> to_ascii_uppercase(w[i])],
         [i \in DOMAIN w |-> IF i = 1 THEN to_ascii_uppercase(w[i]) ELSE w[i]] }

Blanks == { << >>, <<" ">>, <<"\t">>, <<" ", "\n">> }

BoolStrings(n) ==
    UNION {[1..k -> BoolAlphabet] : k \in 0..n}
        \cup {l \o c \o r : l \in Blanks, r \in Blanks,
                             c \in UNION {Cased(w) : w \in BoolWords}}

TypeBool == <<"bool">>

\* Raw strings for the list rule: two distinct malformed elements.
ListAlphabet == {" ", "7", "x", "y", ","}

ListStrings(n) == UNION {[1..k -> ListAlphabet] : k \in 0..n}

\* Raw strings for the integer rules: short strings of digits, signs and
\* blanks, and the literals around every MIN and MAX.
IntAlphabet == {"0", "2", "5", "6", "9", "+", "-", " "}

IntWords ==
    { <<"1", "2", "7">>, <<"1", "2", "8">>, <<"+", "1", "2", "7">>,
      <<"-", "1", "2", "8">>, <<"-", "1", "2", "9">>,
      <<"+", "2", "5", "5">>, <<"+", "2", "5", "6">>,
      <<"0", "0", "2", "5", "5">>, <<"0", "0", "2", "5", "6">>,
      <<"-", "0", "1", "2", "8">>, <<"-", "2", "5", "5">>,
      <<"3", "2", "7", "6", "7">>, <<"3", "2", "7", "6", "8">>,
      <<"-", "3", "2", "7", "6", "8">>, <<"-", "3", "2", "7", "6", "9">>,
      <<"6", "5", "5", "3", "5">>, <<"6", "5", "5", "3", "6">>,
      <<"+", "6", "5", "5", "3", "5">>, <<"9", "9", "9", "9", "9">>,
      <<"4", "2">>, <<"-", "4", "2">>, <<"4", "2", " ">>, <<"x">>,
      <<"1", "2", "a">>, <<"1", ".", "5">>, <<"+", "-", "1">> }

IntStrings(n) == UNION {[1..k -> IntAlphabet] : k \in 0..n} \cup IntWords

IntTypes == << <<"i8">>, <<"u16">>, <<"i16">> >>

ParseTypes ==
    <<TypeU8, <<"String">>, TypeOptionU8, TypeOptionString, TypeBool>>
        \o ListTypes \o IntTypes

\* The raw strings a rule of type ty is applied to.
InputStrings(ty) ==
    CASE ty[1] = "bool" -> BoolStrings(MaxLen)
      [] ty[1] = "List" -> ListStrings(MaxLen)
      [] ty[1] \in IntegerTypes -> IntStrings(MaxLen) \cup Strings(MaxLen)
      [] OTHER -> Strings(MaxLen)

ParseInit ==
    /\ \E i \in DOMAIN ParseTypes :
          \E s \in InputStrings(ParseTypes[i]) :
             input = <<[ty |-> ParseTypes[i], s |-> s]>>
    /\ output = << >>
    /\ var = Declarations[1]
    /\ env = << >>
    /\ EnvarIdle
    /\ ReasonIdle
    /\ LocksIdle

\* EnvarParser::<T>::parse(Cow::Borrowed(name), s)
ApplyParse ==
    /\ input # << >>
    /\ output = << >>
    /\ output' = <<Parse(input[1].ty, "VAR", input[1].s)>>
    /\ UNCHANGED <<input, envarVars, reasonVars, lockVars>>

ParseNext == ApplyParse

SpecParse == ParseInit /\ [][ParseNext]_vars

(***************************************************************************)
(* ErrorReason (error_reason.rs): callers of as_str on one ErrorReason.    *)
(***************************************************************************)
\* The strings the closures given to ErrorReason::new produce.
Messages == {"invalid digit found in string", "number too large", ""}

\* ErrorReason::new(producer)
ReasonInit ==
    /\ \E m \in Messages :
          /\ error_provider = <<m>>
          /\ producer = m
    /\ provider_lock = 0
    /\ poisoned = FALSE
    /\ reason_str = << >>
    /\ once_runner = 0
    /\ rpc = [t \in Callers |-> "idle"]
    /\ produced = [t \in Callers |-> << >>]
    /\ got = [t \in Callers |-> << >>]
    /\ runs = 0
    /\ var = Declarations[1]
    /\ env = << >>
    /\ EnvarIdle
    /\ ParseIdle
    /\ LocksIdle

\* Mutant of OnceMayRun: callers run the initializer side by side.
OnceMayRunAlways(runner) == TRUE

\* OnceLock::get_or_init lets one caller at a time run the initializer.
OnceMayRun(runner) == runner = 0

\* as_str returns s to caller t.
AsStrReturn(t, s) ==
    /\ got' = [got EXCEPT ![t] = <<s>>]
    /\ rpc' = [rpc EXCEPT ![t] = "idle"]

\* The caller panics: the guard it holds poisons the Mutex and the
\* OnceLock stays uninitialized.
AsStrPanic(t) ==
    /\ rpc' = [rpc EXCEPT ![t] = "panicked"]
    /\ poisoned' = (poisoned \/ provider_lock = t)
    /\ provider_lock' = IF provider_lock = t THEN 0 ELSE provider_lock
    /\ once_runner' = IF once_runner = t THEN 0 ELSE once_runner

\* self.reason_str.get_or_init(..): the check of the memo that takes no lock
AsStrGet(t) ==
    /\ rpc[t] = "idle"
    /\ IF reason_str # << >>
       THEN AsStrReturn(t, reason_str[1])
       ELSE /\ rpc' = [rpc EXCEPT ![t] = "once"]
            /\ got' = [got EXCEPT ![t] = << >>]
    /\ UNCHANGED <<error_provider, provider_lock, poisoned, reason_str,
                   once_runner, produced, producer, runs, envarVars, parseVars,
                   lockVars>>

\* Mutant of AsStrEnterOnce: the memo is not looked at again after the
\* wait.
AsStrEnterOnceWithoutRecheck(t) ==
    /\ rpc[t] = "once"
    /\ OnceMayRun(once_runner)
    /\ once_runner' = t
    /\ rpc' = [rpc EXCEPT ![t] = "lock"]
    /\ UNCHANGED <<error_provider, provider_lock, poisoned, reason_str,
                   produced, got, producer, runs, envarVars, parseVars,
                   lockVars>>

\* get_or_init, slow path: wait for a running initializer, then either
\* find the memo set or become the one that runs the initializer.
AsStrEnterOnce(t) ==
    /\ rpc[t] = "once"
    /\ IF reason_str # << >>
       THEN /\ AsStrReturn(t, reason_str[1])
            /\ UNCHANGED once_runner
       ELSE /\ OnceMayRun(once_runner)
            /\ once_runner' = t
            /\ rpc' = [rpc EXCEPT ![t] = "lock"]
            /\ UNCHANGED got
    /\ UNCHANGED <<error_provider, provider_lock, poisoned, reason_str,
                   produced, producer, runs, envarVars, parseVars,
                   lockVars>>

\* match self.error_provider.lock()
AsStrLock(t) ==
    /\ rpc[t] = "lock"
    /\ provider_lock = 0
    /\ IF poisoned
       THEN /\ AsStrPanic(t)
            /\ UNCHANGED <<error_provider, produced>>
       ELSE /\ provider_lock' = t
            /\ rpc' = [rpc EXCEPT ![t] = "take"]
            /\ UNCHANGED <<error_provider, poisoned, once_runner, produced>>
    /\ UNCHANGED <<reason_str, got, producer, runs, envarVars, parseVars,
                   lockVars>>

\* let error_producer = error_producer.take(); match error_producer ..
AsStrTake(t) ==
    /\ rpc[t] = "take"
    /\ error_provider' = << >>
    /\ IF error_provider = << >>
       THEN /\ AsStrPanic(t)
            /\ UNCHANGED <<produced, runs>>
       ELSE \* (error_producer)(), after which the guard is dropped
            /\ produced' = [produced EXCEPT ![t] = error_provider]
            /\ runs' = runs + 1
            /\ provider_lock' = 0
            /\ rpc' = [rpc EXCEPT ![t] = "store"]
            /\ UNCHANGED <<poisoned, once_runner>>
    /\ UNCHANGED <<reason_str, got, producer, envarVars, parseVars,
                   lockVars>>

\* get_or_init stores the initializer's string; result.as_str()
AsStrStore(t) ==
    /\ rpc[t] = "store"
    /\ reason_str' = IF reason_str = << >> THEN produced[t] ELSE reason_str
    /\ once_runner' = IF once_runner = t THEN 0 ELSE once_runner
    /\ produced' = [produced EXCEPT ![t] = << >>]
    /\ AsStrReturn(t, reason_str'[1])
    /\ UNCHANGED <<error_provider, provider_lock, poisoned, producer, runs,
                   envarVars, parseVars,
                   lockVars>>

ReasonNext ==
    \E t \in Callers :
        \/ AsStrGet(t)
        \/ AsStrEnterOnce(t)
        \/ AsStrLock(t)
        \/ AsStrTake(t)
        \/ AsStrStore(t)

SpecReason == ReasonInit /\ [][ReasonNext]_vars

(***************************************************************************)
(* Properties of Envar::value.                                             *)
(***************************************************************************)
\* What the default policy alone resolves to.
DefaultOrNotSet ==
    IF var._default_factory = Unset
    THEN NotSet(var._name)
    ELSE Ok(var._default_factory[1])

\* The resolution of an environment value without any cache.
Uncached(envv) ==
    IF envv = << >>
    THEN DefaultOrNotSet
    ELSE LET r == Parse(var.ty, var._name, envv[1])
         IN  IF r.tag = "TryDefault" THEN DefaultOrNotSet ELSE r

IsBlank(envv) == envv # << >> /\ Trim(envv[1]) = << >>

\* A get or get_or_init of the read found a value committed, or its set
\* was refused.
FoundCommitted(r) ==
    r.path \in {"hit", "lost", "recheck_hit", "absent_lost"}

\* C1: for an OnStartup variable, once a read has returned Ok(v), every
\* read that starts afterwards returns Ok(v).
C1_PinnedAfterOk ==
    (var.policy = "OnStartup" /\ ret # << >>)
        => \A v \in ret[1].before :
              ret[1].res.tag = "Ok" /\ ret[1].res.val = v

\* C2: every OnDemand read returns what an uncached resolution of the
\* environment value it observed returns.
C2_OnDemandUncached ==
    (var.policy = "OnDemand" /\ ret # << >>)
        => ret[1].res = Uncached(ret[1].env_value)

\* C2 witness: a read served from the cache after the environment changed.
C2_Witness ==
    /\ var.policy = "OnDemand"
    /\ ret # << >>
    /\ ret[1].path = "hit"
    /\ ret[1].env_value # << >>
    /\ envChanged

\* C3: the OnStartup cell is empty or holds one value, never changes once
\* non-empty, and at most one commit ever writes it.
C3_WriteOnce ==
    [][ /\ Len(once') <= 1
        /\ once # << >> => once' = once
        /\ commits' <= 1 ]_vars

\* C3 witness: the cell is committed and a later commit attempt lost.
C3_Witness ==
    /\ once # << >>
    /\ commits = 1
    /\ ret # << >>
    /\ ret[1].path \in {"lost", "absent_lost"}

\* C4: while the environment does not change, every OnStartup read that
\* returns Ok returns the one value committed in the cell.
C4_ConcurrentFirstReads ==
    (var.policy = "OnStartup" /\ ~envChanged)
        => \A v \in returned : v = once

\* C4 witness: two first reads raced and the later committer lost.
C4_Witness ==
    /\ var.policy = "OnStartup"
    /\ ~envChanged
    /\ ret # << >>
    /\ ret[1].path \in {"lost", "absent_lost"}
    /\ ret[1].res.tag = "Ok"

SameRawBothOk ==
    /\ var.policy = "OnDemand"
    /\ Len(last) = 2
    /\ last[1].raw = last[2].raw
    /\ last[1].res.tag = "Ok"
    /\ last[2].res.tag = "Ok"

\* C5 as stated: two successive successful OnDemand reads of the same raw
\* string return equal values and the second does not run the parse rule.
C5_SecondReadNeverParses ==
    SameRawBothOk => (last[1].res = last[2].res /\ ~last[1].parsed)

\* C5 amended: they return equal values, and the second runs the parse
\* rule exactly when the rule raises TryDefault on that string.
C5_SecondReadParsesOnlyOnTryDefault ==
    SameRawBothOk
        => /\ last[1].res = last[2].res
           /\ last[1].parsed
                <=> /\ last[1].raw # << >>
                    /\ Parse(var.ty, var._name, last[1].raw[1]).tag = "TryDefault"

\* C5 witness: the second of two reads of one parsable string was a hit.
C5_Witness ==
    /\ SameRawBothOk
    /\ last[1].raw # << >>
    /\ ~last[1].parsed
    /\ last[2].parsed

\* C6: no read returns the TryDefault error.
C6_NoTryDefaultEscapes ==
    ret # << >> => ret[1].res.tag # "TryDefault"

\* C6 witness: a list element raised TryDefault and the read returned.
C6_Witness ==
    /\ ret # << >>
    /\ var.ty[1] = "List"
    /\ ret[1].path \in {"try_default", "reset"}
    /\ ret[1].env_value # << >>
    /\ Parse(var.ty, var._name, ret[1].env_value[1]).tag = "TryDefault"

BlankOptionalRead ==
    /\ ret # << >>
    /\ var.ty[1] = "Option"
    /\ IsBlank(ret[1].env_value)

\* C7 as stated: an Optional-of-T read while the raw string is blank
\* returns the default, or NotSet with the variable name.
C7_BlankGivesDefault ==
    BlankOptionalRead => ret[1].res = DefaultOrNotSet

\* C7 amended: so it does under OnDemand; under OnStartup a read that finds
\* the cell committed returns the committed value, one that finds it empty
\* and has no default fails with NotSet, and otherwise it returns the value
\* in the cell, which is the default when this read commits it.
C7_BlankGivesDefaultOrCommitted ==
    BlankOptionalRead
        => IF var.policy = "OnDemand"
           THEN ret[1].res = DefaultOrNotSet
           ELSE IF ret[1].path = "hit"
           THEN once # << >> /\ ret[1].res = Ok(once[1])
           ELSE IF var._default_factory = Unset
           THEN ret[1].res = NotSet(var._name)
           ELSE /\ once # << >>
                /\ ret[1].res = Ok(once[1])
                /\ ret[1].path = "try_default" => once = var._default_factory

\* C7 witness: an OnStartup read of a blank string committed the default.
C7_Witness ==
    /\ BlankOptionalRead
    /\ var.policy = "OnStartup"
    /\ ret[1].path = "try_default"
    /\ ret[1].res.tag = "Ok"

\* C9: a read of an absent variable returns the default, or NotSet with the
\* bound name; a read of a present variable that parses returns the parsed
\* value; for OnStartup, when the read finds the cell empty.
C9_AbsentGivesDefault ==
    (ret # << >> /\ (var.policy = "OnStartup" => ~FoundCommitted(ret[1])))
        => /\ ret[1].env_value = << >> => ret[1].res = DefaultOrNotSet
           /\ ret[1].env_value # << >>
                => LET r == Parse(var.ty, var._name, ret[1].env_value[1])
                   IN  r.tag = "Ok" => ret[1].res = r

\* C9 witness: an OnStartup read of an absent variable returned the default.
C9_Witness ==
    /\ ret # << >>
    /\ var.policy = "OnStartup"
    /\ ret[1].path = "absent"
    /\ ret[1].env_value = << >>
    /\ ret[1].res.tag = "Ok"

StringRead ==
    /\ ret # << >>
    /\ var.ty[1] = "String"
    /\ var.policy = "OnDemand"
    /\ ret[1].env_value # << >>

\* C15: a read of an OnDemand String variable that observes the raw
\* string s returns Ok(s), whatever s is.
C15_StringIsIdentity ==
    StringRead => ret[1].res = Ok(ret[1].env_value[1])

\* C15 witness: a read returned a string with a leading blank and the
\* next one the empty string.
C15_Witness ==
    /\ StringRead
    /\ ret[1].res = Ok(<< >>)
    /\ Len(last) = 2
    /\ last[2].res = Ok(<<" ", "x">>)

\* A step writes the OnStartup cell only as the last step of a read that
\* returns Ok.
WritesOnlyReturningOk ==
    once' # once =>
        \E t \in Threads :
            /\ pc[t] \in {"init", "set"}
            /\ pc'[t] = "idle"
            /\ ret'[1].res.tag = "Ok"

\* An OnStartup read started after some read had failed, which finds the
\* cell empty and observes a string that T's rule accepts.
ReadAfterFailure ==
    /\ var.policy = "OnStartup"
    /\ ret # << >>
    /\ ret[1].after
    /\ ~FoundCommitted(ret[1])
    /\ ret[1].env_value # << >>
    /\ Parse(var.ty, var._name, ret[1].env_value[1]).tag = "Ok"

\* C16: no step of an OnStartup read that returns ParseError or NotSet
\* writes the cell (every write is the last step of a read returning Ok),
\* and a read that starts after a failure, finds the cell still empty and
\* observes a string T's rule accepts commits the parsed value and
\* returns it.
C16_FailureNotSticky ==
    /\ [][WritesOnlyReturningOk]_vars
    /\ [](ReadAfterFailure =>
            /\ ret[1].res = Parse(var.ty, var._name, ret[1].env_value[1])
            /\ ret[1].path = "parsed"
            /\ once = ret[1].res.val)

\* C16 witness: after a failed read the environment changed and a later
\* read committed the value it parsed.
C16_Witness ==
    /\ ReadAfterFailure
    /\ envChanged
    /\ commits = 1
    /\ ret[1].before = {}
    /\ once = ret[1].res.val

\* The read that returned last fell back on TryDefault.
TryDefaultFallback(r) ==
    /\ r.env_value # << >>
    /\ Parse(var.ty, var._name, r.env_value[1]).tag = "TryDefault"

\* Thread t leaves the critical section of an OnDemand read in this step.
Leaves(t) == pc[t] = "resolve" /\ pc'[t] = "idle"

\* C17: the cache entry changes only in the last step of an OnDemand read,
\* and not in that of a read that returns ParseError or NotSet or falls
\* back on TryDefault (to the default or to NotSet): such a read leaves
\* the stored raw string and the stored value as they were.
C17_FailurePreservesEntry ==
    [][ /\ entry' # entry => \E t \in Threads : Leaves(t)
        /\ \A t \in Threads :
              (Leaves(t) /\ \/ ret'[1].res.tag \in {"ParseError", "NotSet"}
                            \/ TryDefaultFallback(ret'[1]))
                 => entry' = entry ]_vars

\* C17 witness: a read fell back to the default on a blank string while
\* the entry kept the pair stored by the read before it.
C17_Witness ==
    /\ var.policy = "OnDemand"
    /\ Len(last) = 2
    /\ last[2].res.tag = "Ok"
    /\ last[2].parsed
    /\ entry.raw = last[2].raw
    /\ entry.val = last[2].res.val
    /\ ret # << >>
    /\ ret[1].env_value = last[1].raw
    /\ TryDefaultFallback(ret[1])
    /\ last[1].res.tag = "Ok"
    /\ last[1].res.val # entry.val

\* C18: for an OnDemand variable, a value held in the cache entry is what
\* the raw value stored beside it resolves to: the parse of the stored
\* string, or the default when absence is stored.
C18_EntryIsResolutionOfRaw ==
    (var.policy = "OnDemand" /\ entry.val # << >>)
        => IF entry.raw = << >>
           THEN entry.val = var._default_factory
           ELSE Parse(var.ty, var._name, entry.raw[1]) = Ok(entry.val[1])

\* C18 witness: the entry holds the pair of an earlier read while the
\* environment holds another string, whose read failed.
C18_Witness ==
    /\ var.policy = "OnDemand"
    /\ entry.val # << >>
    /\ entry.raw # << >>
    /\ env # << >>
    /\ env # entry.raw
    /\ ret # << >>
    /\ ret[1].env_value = env
    /\ ret[1].res.tag = "ParseError"

\* The threads between mutex.lock() and the drop of the guard.
InCriticalSection == {t \in Threads : pc[t] \in {"locked", "resolve"}}

\* C19: at most one thread is inside the critical section of an OnDemand
\* variable, and it is the holder of the mutex; while a thread is inside,
\* another thread can do no more than arrive at mutex.lock() and wait, and
\* the entry is written only by the holder, in the step that ends its read.
C19_MutualExclusion ==
    /\ [](/\ Cardinality(InCriticalSection) <= 1
          /\ InCriticalSection = IF mutex = 0 THEN {} ELSE {mutex})
    /\ [][ mutex # 0 =>
             /\ \A u \in Threads \ {mutex} :
                   pc'[u] = pc[u] \/ (pc[u] = "idle" /\ pc'[u] = "wait")
             /\ entry' # entry => (pc[mutex] = "resolve" /\ mutex' = 0) ]_vars

\* C19 witness: a thread is about to compare and update the entry inside
\* the critical section, on a value the environment no longer holds, and
\* the other threads are kept out.
C19_Witness ==
    /\ var.policy = "OnDemand"
    /\ mutex # 0
    /\ pc[mutex] = "resolve"
    /\ env_value[mutex] # env
    /\ \A u \in Threads \ {mutex} : pc[u] = "wait" /\ ~ENABLED DemandLock(u)
    /\ ret # << >>

\* Every thread inside a read can take its next step, or waits for a
\* mutex whose holder is inside the critical section and can take its
\* next step.
NoDeadlock ==
    \A t \in Threads :
        at[t] # "idle" =>
            \/ ENABLED Continue(t)
            \/ /\ at[t] = "wait"
               /\ holders[target[t]] # 0
               /\ at[holders[target[t]]] \in {"locked", "resolve"}
               /\ target[holders[target[t]]] = target[t]
               /\ ENABLED Continue(holders[target[t]])

OptionApplied ==
    /\ input # << >>
    /\ output # << >>
    /\ input[1].ty[1] = "Option"
    /\ Trim(input[1].s) # << >>

\* T's rule applied to s, a success wrapped in Some.
WrappedInner(s) ==
    LET r == Parse(input[1].ty[2], "VAR", s)
    IN  IF r.tag = "Ok" THEN Ok(<<"Some", r.val[1]>>) ELSE r

\* C8 as stated: on a string that is not blank the Optional-of-T rule
\* yields what T's rule yields on that string, a success wrapped in Some.
C8_OptionIsInnerRule ==
    OptionApplied => output[1] = WrappedInner(input[1].s)

\* C8 amended: it yields what T's rule yields on the trimmed string.
C8_OptionIsInnerRuleOnTrimmed ==
    OptionApplied => output[1] = WrappedInner(Trim(input[1].s))

\* C8 witness: Option<String> applied to a string with blanks around it.
C8_Witness ==
    /\ OptionApplied
    /\ input[1].ty[2][1] = "String"
    /\ Trim(input[1].s) # input[1].s
    /\ output[1].tag = "Ok"

(***************************************************************************)
(* Properties of ErrorReason.                                              *)
(***************************************************************************)
\* C10: the closure runs at most once, exactly once when some as_str call
\* has returned, no call panics, and every call returns the string the
\* closure produced.
C10_ComputedOnce ==
    /\ runs <= 1
    /\ \A t \in Callers :
          /\ rpc[t] # "panicked"
          /\ got[t] # << >> => (got[t] = <<producer>> /\ runs = 1)

\* C10 witness: every caller has the string while one calls again.
C10_Witness ==
    /\ error_provider = << >>
    /\ \A t \in Callers : got[t] # << >>
    /\ runs = 1

\* C21: no as_str call finds the provider consumed (a caller about to
\* take it finds it present, and none has panicked), and the provider's
\* lock is asked for and held only while the memo is empty.
C21_ProviderNeverFoundConsumed ==
    /\ \A t \in Callers :
          /\ rpc[t] # "panicked"
          /\ rpc[t] = "take" => (error_provider # << >> /\ provider_lock = t)
          /\ rpc[t] \in {"lock", "take"} => reason_str = << >>
    /\ provider_lock # 0 => reason_str = << >>

\* C21 witness: the memo is populated and the provider consumed while a
\* caller that found the memo empty is still inside get_or_init, and
\* another caller has its string.
C21_Witness ==
    /\ reason_str # << >>
    /\ error_provider = << >>
    /\ provider_lock = 0
    /\ \E t \in Callers : rpc[t] = "once"
    /\ \E t \in Callers : got[t] = reason_str

(***************************************************************************)
(* C11: the Boolean rule, stated on the trimmed input folded to lower      *)
(* case.                                                                   *)
(***************************************************************************)
BoolApplied == output # << >> /\ input[1].ty[1] = "bool"

Fold(s) == [i \in DOMAIN s |-> to_ascii_lowercase(s[i])]

TrueLiterals ==
    { <<"t", "r", "u", "e">>, <<"1">>, <<"y", "e", "s">>, <<"y">>,
      <<"o", "n">>, <<"e", "n", "a", "b", "l", "e", "d">> }

FalseLiterals ==
    { <<"f", "a", "l", "s", "e">>, <<"0">>, <<"n", "o">>, <<"n">>,
      <<"o", "f", "f">>, <<"d", "i", "s", "a", "b", "l", "e", "d">> }

\* C11: the Boolean rule applied to s, with t the trimmed s: an empty t
\* gives false; t matching a true literal without regard to case gives
\* true; t matching a false literal gives false; every other t gives a
\* ParseError of type name "bool"; the four cases exclude one another and
\* the result is never anything else.
C11_BoolRule ==
    BoolApplied =>
        LET t == Fold(Trim(input[1].s))
            r == output[1]
        IN  /\ TrueLiterals \cap FalseLiterals = {}
            /\ << >> \notin TrueLiterals \cup FalseLiterals
            /\ r.tag \in {"Ok", "ParseError"}
            /\ t = << >> => r = Ok(FALSE)
            /\ t \in TrueLiterals => r = Ok(TRUE)
            /\ t \in FalseLiterals => r = Ok(FALSE)
            /\ (t # << >> /\ t \notin TrueLiterals \cup FalseLiterals) =>
                   r.tag = "ParseError" /\ r.typename = "bool"

\* A true literal in upper case between blanks was parsed.
C11_Witness ==
    /\ BoolApplied
    /\ Trim(input[1].s) # input[1].s
    /\ Fold(Trim(input[1].s)) # Trim(input[1].s)
    /\ Fold(Trim(input[1].s)) \in TrueLiterals
    /\ output[1] = Ok(TRUE)

(***************************************************************************)
(* C12, C13: the list rule against a reference that works on whole         *)
(* sequences: split, filter, trim, filter, parse each survivor.            *)
(***************************************************************************)
ListApplied == output # << >> /\ input[1].ty[1] = "List"

\* The segments of s cut at the occurrences of sep, found by one scan from
\* the left: at position i, with the segments closed so far and the open one.
RECURSIVE Scan(_, _, _, _, _)
Scan(s, sep, i, closed, open) ==
    IF i > Len(s)
    THEN Append(closed, open)
    ELSE IF MatchAt(s, sep, i)
    THEN Scan(s, sep, i + Len(sep), Append(closed, open), << >>)
    ELSE Scan(s, sep, i + 1, closed, Append(open, s[i]))

\* The trimmed segments of s that survive the two filters of conf, in order.
Survivors(conf, s) ==
    LET segs == Scan(s, conf.SEP, 1, << >>, << >>)
        NotDroppedEmpty(x) == ~(conf.FILTER_EMPTY_STR /\ x = << >>)
        kept == SelectSeq(segs, NotDroppedEmpty)
        trimmed == [i \in DOMAIN kept |-> Trim(kept[i])]
        NotDroppedBlank(x) == ~(conf.FILTER_WHITESPACE /\ x = << >>)
    IN  SelectSeq(trimmed, NotDroppedBlank)

\* T's rule on every survivor.
ElementResults ==
    LET sv == Survivors(input[1].ty[3], input[1].s)
    IN  [i \in DOMAIN sv |-> Parse(input[1].ty[2], "VAR", sv[i])]

Failing == {i \in DOMAIN ElementResults : ElementResults[i].tag # "Ok"}

\* C12: when T's rule accepts every surviving segment, the list rule gives
\* the list of their parsed values in source order; with no surviving
\* segment that is the empty list and not an error.
C12_ListIsReference ==
    (ListApplied /\ Failing = {}) =>
        output[1] = Ok([i \in DOMAIN ElementResults |-> ElementResults[i].val[1]])

\* An unfiltered list kept a blank segment, and a filtered list of blank
\* segments alone came out empty.
C12_Witness ==
    /\ ListApplied
    /\ Failing = {}
    /\ \/ /\ ~input[1].ty[3].FILTER_WHITESPACE
          /\ input[1].ty[2][1] = "String"
          /\ Len(output[1].val[1]) = 3
          /\ output[1].val[1][2] = << >>
          /\ output[1].val[1][3] # << >>
       \/ /\ input[1].ty[3].FILTER_WHITESPACE
          /\ Len(input[1].s) = MaxLen
          /\ output[1] = Ok(<< >>)

\* The type name reported by the rule of ty: Option<T> reports T's.
RECURSIVE RuleTypeName(_)
RuleTypeName(ty) == IF ty[1] = "Option" THEN RuleTypeName(ty[2]) ELSE ty[1]

FirstFailing == CHOOSE i \in Failing : \A j \in Failing : i <= j

\* C13: when T's rule rejects some surviving segment, the list rule returns
\* the error of the first such segment in source order and no list; a
\* ParseError among these names the list's variable and the element type
\* and carries the trimmed segment.
C13_FirstFailure ==
    (ListApplied /\ Failing # {}) =>
        /\ output[1] = ElementResults[FirstFailing]
        /\ output[1].tag # "Ok"
        /\ output[1].val = << >>
        /\ output[1].varname = "VAR"
        /\ output[1].tag = "ParseError" =>
              /\ output[1].typename = RuleTypeName(input[1].ty[2])
              /\ output[1].value =
                    Survivors(input[1].ty[3], input[1].s)[FirstFailing]

\* Two segments fail with different errors and the first one's is returned.
C13_Witness ==
    /\ ListApplied
    /\ \E i \in Failing : \E j \in Failing :
          /\ i < j
          /\ ElementResults[i] # ElementResults[j]
          /\ output[1] = ElementResults[i]
          /\ output[1].tag = "ParseError"

(***************************************************************************)
(* C14: the integer rules against the literals written out from numbers.   *)
(***************************************************************************)
IntApplied == output # << >> /\ input[1].ty[1] \in IntegerTypes

DigitChars == <<"0", "1", "2", "3", "4", "5", "6", "7", "8", "9">>

\* The decimal numeral of the natural number n.
RECURSIVE Numeral(_)
Numeral(n) ==
    IF n < 10
    THEN <<DigitChars[n + 1]>>
    ELSE Append(Numeral(n \div 10), DigitChars[(n % 10) + 1])

RECURSIVE StripZeros(_)
StripZeros(d) ==
    IF Len(d) > 1 /\ Head(d) = "0" THEN StripZeros(Tail(d)) ELSE d

Rank(c) == CHOOSE k \in DOMAIN DigitChars : DigitChars[k] = c

\* Numerals without leading zeros, compared as numbers.
NumeralLE(a, b) ==
    \/ Len(a) < Len(b)
    \/ /\ Len(a) = Len(b)
       /\ \/ a = b
          \/ \E i \in DOMAIN a :
                /\ \A j \in 1..(i - 1) : a[j] = b[j]
                /\ Rank(a[i]) < Rank(b[i])

HasSign(s) == s # << >> /\ s[1] \in {"+", "-"}

Magnitude(s) == IF HasSign(s) THEN Tail(s) ELSE s

\* s is a literal of the integer type named T within its range: an
\* optional sign ("-" for a signed type only), then one or more digits
\* whose number lies between MIN and MAX.
ValidLiteral(T, s) ==
    LET t == IntegerType(T)
        m == Magnitude(s)
    IN  /\ m # << >>
        /\ \A i \in DOMAIN m : m[i] \in {DigitChars[k] : k \in DOMAIN DigitChars}
        /\ (HasSign(s) /\ s[1] = "-") => t.signed
        /\ IF HasSign(s) /\ s[1] = "-"
           THEN NumeralLE(StripZeros(m), Numeral(0 - t.MIN))
           ELSE NumeralLE(StripZeros(m), Numeral(t.MAX))

\* The literal s denotes the number n.
Denotes(s, n) ==
    /\ StripZeros(Magnitude(s)) = Numeral(IF n < 0 THEN 0 - n ELSE n)
    /\ n < 0 => s[1] = "-"
    /\ n > 0 => s[1] # "-"

\* C14: the rule of an integer type T applied to s succeeds, with the
\* number s denotes, exactly when s is a literal of T within T's range;
\* otherwise it gives a ParseError naming T and carrying s.
C14_IntegerRule ==
    IntApplied =>
        LET T == input[1].ty[1]
            s == input[1].s
            r == output[1]
        IN  IF ValidLiteral(T, s)
            THEN /\ r.tag = "Ok"
                 /\ r.val[1] \in IntegerType(T).MIN..IntegerType(T).MAX
                 /\ Denotes(s, r.val[1])
            ELSE r = ParseError("VAR", T, s)

\* "999" was rejected as a u8.
C14_Witness ==
    /\ IntApplied
    /\ input[1].ty[1] = "u8"
    /\ input[1].s = <<"9", "9", "9">>
    /\ output[1] = ParseError("VAR", "u8", <<"9", "9", "9">>)


\* The name of the type whose conversion fails inside a rule: a wrapper
\* or a list hands the text to its element type's rule.
RECURSIVE ConvertedTypeName(_)
ConvertedTypeName(ty) ==
    IF ty[1] \in {"Option", "List"} THEN ConvertedTypeName(ty[2]) ELSE ty[1]

\* C22: every ParseError returned by a read carries the variable's name,
\* the name of the type whose conversion failed, and the value of the
\* environment variable as the read observed it.
C22_ParseErrorCarriesRawValue ==
    (ret # << >> /\ ret[1].res.tag = "ParseError")
        => /\ ret[1].res.varname = var._name
           /\ ret[1].res.typename = ConvertedTypeName(var.ty)
           /\ <<ret[1].res.value>> = ret[1].env_value

\* C23: every Ok value returned by an OnStartup read, whichever path it
\* took, is the value the committed cell holds when the read returns.
C23_OkIsCommittedValue ==
    (var.policy = "OnStartup" /\ ret # << >> /\ ret[1].res.tag = "Ok")
        => once = ret[1].res.val

\* C24: the cache entry of an OnDemand variable never holds a raw string
\* without a parsed value, it holds nothing at all until a read has stored
\* a pair, and once it holds a parsed value no step leaves it without one.
C24_EntryKeepsParsedValue ==
    /\ [](/\ entry.raw # << >> => entry.val # << >>
          /\ entry.val = << >>
               => \A i \in DOMAIN last :
                     last[i].res.tag = "Ok"
                         => TryDefaultFallback([env_value |-> last[i].raw]))
    /\ [][entry.val # << >> => entry'.val # << >>]_vars

\* C24 witness: a read found the variable absent and no default, and the
\* entry still holds the pair stored by an earlier read.
C24_Witness ==
    /\ var.policy = "OnDemand"
    /\ ret # << >>
    /\ ret[1].env_value = << >>
    /\ ret[1].res.tag = "NotSet"
    /\ entry.raw # << >>
    /\ entry.val # << >>

\* The configuration that differs from conf in FILTER_EMPTY_STR alone.
OtherFilterEmpty(conf) ==
    [conf EXCEPT !.FILTER_EMPTY_STR = ~conf.FILTER_EMPTY_STR]

\* C25: with FILTER_WHITESPACE enabled, the list rule gives the same result
\* on every raw string whether FILTER_EMPTY_STR is enabled or not.
C25_FilterEmptyIsRedundant ==
    (ListApplied /\ input[1].ty[3].FILTER_WHITESPACE)
        => output[1] = ParseList(input[1].ty[2],
                                 OtherFilterEmpty(input[1].ty[3]),
                                 "VAR", input[1].s)

\* C25 witness: with FILTER_WHITESPACE alone, a raw string with an empty
\* segment gave the list of its other segments.
C25_Witness ==
    /\ ListApplied
    /\ input[1].ty[3].FILTER_WHITESPACE
    /\ ~input[1].ty[3].FILTER_EMPTY_STR
    /\ \E i \in DOMAIN Split(input[1].s, input[1].ty[3].SEP) :
           Split(input[1].s, input[1].ty[3].SEP)[i] = << >>
    /\ output[1].tag = "Ok"
    /\ output[1].val[1] # << >>


====
